---- MODULE Spec2Model ----
(***************************************************************************)
(* Model of kor/elements.py: the input schema entities (AbstractInput and  *)
(* its subclasses), identifier validation at construction, the tag writer  *)
(* (_write_single_tag, _write_tag, _write_complex_tag), the type_name      *)
(* descriptor and the llm_examples example compiler.                       *)
(*                                                                         *)
(* A Python str is a sequence of one-character strings, so that            *)
(* concatenation, strip(), endswith() and the regular expression are       *)
(* computed character by character.  A value of type `str | Sequence[str]` *)
(* carries its runtime type (PyStr / PyList), which is what isinstance()   *)
(* inspects.  A dict is the sequence of its (key, value) items in          *)
(* insertion order, with pairwise distinct keys.                           *)
(***************************************************************************)
EXTENDS Integers, Sequences, FiniteSets, TLC

VARIABLES
    objs,      \* slot -> the entity constructed there, or NoField
    call,      \* the tag writer call about to be made: [op, args], or NoCall
    ret,       \* the last call made and its result: [op, args, val]
    compiled   \* slot -> the llm_examples results returned so far, oldest first

vars == <<objs, call, ret, compiled>>

-----------------------------------------------------------------------------
(* Bounds of the model.                                                    *)

MaxIdLen == 3          \* longest identifier tried at construction
MaxSeqLen == 2         \* longest list-valued extraction / data_values
MaxKeys == 2           \* most keys in an object mapping
MaxExamples == 2       \* most examples declared on a scalar field
MaxOptions == 2        \* most options declared on a Selection
MaxCompiles == 2       \* most llm_examples reads of one entity

SeqsUpTo(S, n) == UNION {[1..k -> S] : k \in 0..n}

-----------------------------------------------------------------------------
(* Python values.                                                          *)

PyStr(s) == [type |-> "str", v |-> s]
PyList(l) == [type |-> "list", v |-> l]
isinstance_str(x) == x.type = "str"

\* ord(c) for the characters that are ever compared or classified.
Ord(c) ==
    CASE c = "\t" -> 9
      [] c = "\n" -> 10
      [] c = " " -> 32
      [] c = "-" -> 45
      [] c = "0" -> 48
      [] c = "1" -> 49
      [] c = "2" -> 50
      [] c = "9" -> 57
      [] c = "A" -> 65
      [] c = "B" -> 66
      [] c = "_" -> 95
      [] c = "a" -> 97
      [] c = "b" -> 98
      [] c = "z" -> 122

\* str.__lt__: lexicographic comparison by code point.
RECURSIVE str_lt(_, _)
str_lt(a, b) ==
    IF b = <<>> THEN FALSE
    ELSE IF a = <<>> THEN TRUE
    ELSE IF a[1] = b[1] THEN str_lt(Tail(a), Tail(b))
    ELSE Ord(a[1]) < Ord(b[1])

\* sep.join(parts)
RECURSIVE join(_, _)
join(sep, parts) ==
    IF parts = <<>> THEN <<>>
    ELSE IF Len(parts) = 1 THEN parts[1]
    ELSE parts[1] \o sep \o join(sep, Tail(parts))

\* One step of a stable sort on items keyed by their first component: x goes
\* after every item whose key is not greater than its own.
RECURSIVE insert_by_key(_, _)
insert_by_key(x, s) ==
    IF s = <<>> THEN <<x>>
    ELSE IF str_lt(x[1], s[1][1]) THEN <<x>> \o s
    ELSE <<s[1]>> \o insert_by_key(x, Tail(s))

\* sorted(items, key=lambda item: item[0]): stable, ascending.
RECURSIVE sorted_items(_)
sorted_items(items) ==
    IF items = <<>> THEN <<>>
    ELSE insert_by_key(items[Len(items)], sorted_items(SubSeq(items, 1, Len(items) - 1)))

\* sorted(strs)
sorted_strs(strs) ==
    LET keyed == sorted_items([i \in 1..Len(strs) |-> <<strs[i]>>])
    IN [i \in 1..Len(strs) |-> keyed[i][1]]

-----------------------------------------------------------------------------
(* Tag writer.                                                             *)

write_single_tag(tag_name, data) ==
    <<"<">> \o tag_name \o <<">">> \o data \o <<"<", "/">> \o tag_name \o <<">">>

\* Variant: the values of a sequence are written in sorted order.
write_tag_sorted(tag_name, data_values) ==
    LET values == IF isinstance_str(data_values)
                  THEN <<data_values.v>>
                  ELSE sorted_strs(data_values.v)
    IN join(<<>>, [i \in 1..Len(values) |-> write_single_tag(tag_name, values[i])])

write_tag(tag_name, data_values) ==
    LET values == IF isinstance_str(data_values)
                  THEN <<data_values.v>>
                  ELSE data_values.v
    IN join(<<>>, [i \in 1..Len(values) |-> write_single_tag(tag_name, values[i])])

\* Variant: the items are written in insertion order.
write_complex_tag_unsorted(tag_name, data) ==
    LET s_data == join(<<>>, [i \in 1..Len(data) |-> write_tag(data[i][1], data[i][2])])
    IN write_tag(tag_name, PyStr(s_data))

write_complex_tag(tag_name, data) ==
    LET items == sorted_items(data)
        s_data == join(<<>>, [i \in 1..Len(items) |-> write_tag(items[i][1], items[i][2])])
    IN write_tag(tag_name, PyStr(s_data))

-----------------------------------------------------------------------------
(* Inputs of the tag writer calls.                                         *)

TagNames == {<<"x">>, <<"a", "b">>}
StrValues == {<<>>, <<" ">>, <<"\t", " ">>, <<"a">>, <<" ", "a", " ">>, <<"b", "a">>}
ElemValues == {<<>>, <<" ">>, <<"a">>, <<"b">>}
ListValues == SeqsUpTo(ElemValues, MaxSeqLen)
DataValues == {PyStr(s) : s \in StrValues} \cup {PyList(l) : l \in ListValues}

Keys == {<<"a">>, <<"b">>, <<"a", "b">>, <<"B">>}
MappingValues == {PyStr(<<"1">>), PyStr(<<>>), PyList(<<<<"1">>, <<"2">>>>), PyList(<<>>)}
Mappings ==
    {m \in SeqsUpTo(Keys \X MappingValues, MaxKeys) :
        \A i, j \in 1..Len(m) : i # j => m[i][1] # m[j][1]}

-----------------------------------------------------------------------------
(* State.                                                                  *)

Slots == {1, 2}
NoField == [cls |-> <<>>]
NoCall == [op |-> "none", args |-> <<>>]
NoReturn == [op |-> "none", args |-> <<>>, val |-> <<>>]


-----------------------------------------------------------------------------
(* Direct calls of the tag writer: the arguments are drawn initially, and  *)
(* the call returns the function's value.  With no such call drawn, the    *)
(* caller builds entities instead.                                         *)

TagCalls ==
    {[op |-> "_write_single_tag", args |-> <<n, d>>] : n \in TagNames, d \in StrValues}
    \cup {[op |-> "_write_tag", args |-> <<n, d>>] : n \in TagNames, d \in DataValues}
    \cup {[op |-> "_write_complex_tag", args |-> <<n, d>>] : n \in TagNames, d \in Mappings}

Init ==
    /\ objs = [s \in Slots |-> NoField]
    /\ call \in {NoCall} \cup TagCalls
    /\ ret = NoReturn
    /\ compiled = [s \in Slots |-> <<>>]

InitSession ==
    /\ objs = [s \in Slots |-> NoField]
    /\ call = NoCall
    /\ ret = NoReturn
    /\ compiled = [s \in Slots |-> <<>>]

CallWriteSingleTag ==
    /\ call.op = "_write_single_tag"
    /\ ret = NoReturn
    /\ ret' = [op |-> call.op, args |-> call.args,
               val |-> write_single_tag(call.args[1], call.args[2])]
    /\ UNCHANGED <<objs, call, compiled>>

CallWriteTag ==
    /\ call.op = "_write_tag"
    /\ ret = NoReturn
    /\ ret' = [op |-> call.op, args |-> call.args,
               val |-> write_tag(call.args[1], call.args[2])]
    /\ UNCHANGED <<objs, call, compiled>>

CallWriteComplexTag ==
    /\ call.op = "_write_complex_tag"
    /\ ret = NoReturn
    /\ ret' = [op |-> call.op, args |-> call.args,
               val |-> write_complex_tag(call.args[1], call.args[2])]
    /\ UNCHANGED <<objs, call, compiled>>

-----------------------------------------------------------------------------
(* Identifier validation.                                                  *)

\* [a-z_]
is_head_char(c) == (Ord("a") <= Ord(c) /\ Ord(c) <= Ord("z")) \/ c = "_"

\* [0-9a-z_]
is_tail_char(c) == (Ord("0") <= Ord(c) /\ Ord(c) <= Ord("9")) \/ is_head_char(c)

\* `$` without re.MULTILINE, after k characters: at the end of the string, or
\* just before a newline that is the string's last character.
at_dollar(s, k) == k = Len(s) \/ (k = Len(s) - 1 /\ s[Len(s)] = "\n")

\* bool(VALID_IDENTIFIER_PATTERN.match(s)): some prefix s[1..k] is matched by
\* [a-z_][0-9a-z_]* and `$` matches after it.
pattern_match(s) ==
    \E k \in 1..Len(s) :
        /\ is_head_char(s[1])
        /\ \A i \in 2..k : is_tail_char(s[i])
        /\ at_dollar(s, k)

-----------------------------------------------------------------------------
(* Classes: __class__.__name__ of each concrete entity.                    *)

DateInput == <<"D", "a", "t", "e", "I", "n", "p", "u", "t">>
Number == <<"N", "u", "m", "b", "e", "r">>
TimePeriod == <<"T", "i", "m", "e", "P", "e", "r", "i", "o", "d">>
NumericRange == <<"N", "u", "m", "e", "r", "i", "c", "R", "a", "n", "g", "e">>
TextInput == <<"T", "e", "x", "t", "I", "n", "p", "u", "t">>
ObjectInput == <<"O", "b", "j", "e", "c", "t", "I", "n", "p", "u", "t">>
Option == <<"O", "p", "t", "i", "o", "n">>
Selection == <<"S", "e", "l", "e", "c", "t", "i", "o", "n">>
Form == <<"F", "o", "r", "m">>

ScalarClasses == {DateInput, Number, TimePeriod, NumericRange, TextInput}
\* The subclasses of ExtractionInput: they inherit its llm_examples.
ExtractionClasses == ScalarClasses \cup {Form}
Classes == ExtractionClasses \cup {ObjectInput, Option, Selection}

PyNone == [type |-> "NoneType"]

\* The dataclass-generated __init__ followed by __post_init__: the instance
\* holding the keyword arguments, or the ValueError raised for its id.
ValueError == [cls |-> <<>>, raised |-> "ValueError"]
new(cls, kwargs) ==
    IF ~pattern_match(kwargs.id)
    THEN ValueError
    ELSE [cls |-> cls] @@ kwargs

-----------------------------------------------------------------------------
(* Type descriptor.                                                        *)

endswith(s, suffix) ==
    /\ Len(s) >= Len(suffix)
    /\ SubSeq(s, Len(s) - Len(suffix) + 1, Len(s)) = suffix

removesuffix(s, suffix) ==
    IF endswith(s, suffix) THEN SubSeq(s, 1, Len(s) - Len(suffix)) ELSE s

InputSuffix == <<"I", "n", "p", "u", "t">>
MultiplePrefix == <<"M", "u", "l", "t", "i", "p", "l", "e", " ">>

\* Variant: custom_type_name, when set, replaces the descriptor.
AbstractInput_type_name_custom(self) ==
    IF self.custom_type_name # PyNone
    THEN self.custom_type_name.v
    ELSE LET class_name == IF self.multiple THEN MultiplePrefix \o self.cls ELSE self.cls
         IN removesuffix(class_name, InputSuffix)

AbstractInput_type_name(self) ==
    LET class_name == IF self.multiple THEN MultiplePrefix \o self.cls ELSE self.cls
    IN IF endswith(class_name, InputSuffix)
       THEN removesuffix(class_name, InputSuffix)
       ELSE class_name

\* Variant: the option ids in declaration order.
option_ids_declared(self) == [i \in 1..Len(self.options) |-> self.options[i].id]

option_ids(self) == sorted_strs([i \in 1..Len(self.options) |-> self.options[i].id])

SelectOpen == <<"S", "e", "l", "e", "c", "t", "[">>

Selection_type_name(self) ==
    LET options_string == join(<<",">>, option_ids(self))
    IN IF self.multiple
       THEN MultiplePrefix \o SelectOpen \o options_string \o <<"]">>
       ELSE SelectOpen \o options_string \o <<"]">>

\* self.type_name: Selection overrides the property, every other class
\* inherits AbstractInput's.
type_name(self) ==
    IF self.cls = Selection
    THEN Selection_type_name(self)
    ELSE AbstractInput_type_name(self)

-----------------------------------------------------------------------------
(* Example compiler.                                                       *)

is_space(c) == c \in {" ", "\t", "\n", "\r", "\f"}

RECURSIVE lstrip(_)
lstrip(s) == IF s # <<>> /\ is_space(s[1]) THEN lstrip(Tail(s)) ELSE s

RECURSIVE rstrip(_)
rstrip(s) ==
    IF s # <<>> /\ is_space(s[Len(s)]) THEN rstrip(SubSeq(s, 1, Len(s) - 1)) ELSE s

strip(s) == rstrip(lstrip(s))

\* The list built by appending each sequence's elements in turn.
RECURSIVE extend_all(_)
extend_all(seqs) == IF seqs = <<>> THEN <<>> ELSE seqs[1] \o extend_all(Tail(seqs))

\* Variant: only the empty string is omitted, whitespace is tagged.
ExtractionInput_llm_examples_empty_only(self) ==
    [i \in 1..Len(self.examples) |->
        LET text == self.examples[i][1]
            extraction == self.examples[i][2]
            value == IF isinstance_str(extraction) /\ extraction.v = <<>>
                     THEN <<>>
                     ELSE write_tag(self.id, extraction)
        IN <<text, value>>]

\* Variant: blank elements of a sequence are omitted too.
ExtractionInput_llm_examples_skip_blank(self) ==
    [i \in 1..Len(self.examples) |->
        LET text == self.examples[i][1]
            extraction == self.examples[i][2]
            kept == IF isinstance_str(extraction)
                    THEN extraction
                    ELSE PyList(SelectSeq(extraction.v, LAMBDA v : strip(v) # <<>>))
            value == IF isinstance_str(extraction) /\ strip(extraction.v) = <<>>
                     THEN <<>>
                     ELSE write_tag(self.id, kept)
        IN <<text, value>>]

ExtractionInput_llm_examples(self) ==
    [i \in 1..Len(self.examples) |->
        LET text == self.examples[i][1]
            extraction == self.examples[i][2]
            value == IF isinstance_str(extraction) /\ strip(extraction.v) = <<>>
                     THEN <<>>
                     ELSE write_tag(self.id, extraction)
        IN <<text, value>>]

ObjectInput_llm_examples(self) ==
    [i \in 1..Len(self.examples) |->
        <<self.examples[i][1], write_complex_tag(self.id, self.examples[i][2])>>]

\* Variant: the option's id is the tag name and the Selection's id the content.
Selection_llm_examples_option_tag(self) ==
    LET of_option(option) ==
            [j \in 1..Len(option.examples) |->
                <<option.examples[j], write_tag(option.id, PyStr(self.id))>>]
        of_options == extend_all([i \in 1..Len(self.options) |-> of_option(self.options[i])])
        of_nulls == [k \in 1..Len(self.null_examples) |-> <<self.null_examples[k], <<>>>>]
    IN of_options \o of_nulls

Selection_llm_examples(self) ==
    LET of_option(option) ==
            [j \in 1..Len(option.examples) |->
                <<option.examples[j], write_tag(self.id, PyStr(option.id))>>]
        of_options == extend_all([i \in 1..Len(self.options) |-> of_option(self.options[i])])
        of_nulls == [k \in 1..Len(self.null_examples) |-> <<self.null_examples[k], <<>>>>]
    IN of_options \o of_nulls

\* Option defines no llm_examples.
has_llm_examples(self) == self.cls \in ExtractionClasses \cup {ObjectInput, Selection}

\* Variant: a Form also compiles the examples of its elements.
llm_examples_with_elements(self) ==
    CASE self.cls \in ScalarClasses -> ExtractionInput_llm_examples(self)
      [] self.cls = Form ->
            ExtractionInput_llm_examples(self)
            \o extend_all([i \in 1..Len(self.elements) |->
                              ExtractionInput_llm_examples(self.elements[i])])
      [] self.cls = ObjectInput -> ObjectInput_llm_examples(self)
      [] self.cls = Selection -> Selection_llm_examples(self)

\* self.llm_examples, resolved along the class hierarchy.
llm_examples(self) ==
    CASE self.cls \in ExtractionClasses -> ExtractionInput_llm_examples(self)
      [] self.cls = ObjectInput -> ObjectInput_llm_examples(self)
      [] self.cls = Selection -> Selection_llm_examples(self)

-----------------------------------------------------------------------------
(* Constructor calls made by the caller assembling a schema.               *)

IdAlphabet == {"a", "z", "1", "_", "A", "\n", "-"}
Identifiers == SeqsUpTo(IdAlphabet, MaxIdLen)
FieldIds == {<<"a">>, <<"z", "_", "1">>}
Texts == {<<"t">>, <<"u">>}

\* The keyword arguments every class takes (description, multiple and
\* custom_type_name have defaults "", False and None).
Base(id, description, multiple, custom_type_name) ==
    [id |-> id, description |-> description, multiple |-> multiple,
     custom_type_name |-> custom_type_name]

Plain(id) == Base(id, <<>>, FALSE, PyNone)

\* The remaining arguments of each class, with nothing declared in them.
Empty(cls) ==
    CASE cls \in ScalarClasses \cup {ObjectInput, Option} -> [examples |-> <<>>]
      [] cls = Form -> [examples |-> <<>>, elements |-> <<>>]
      [] cls = Selection -> [options |-> <<>>, null_examples |-> <<>>]

ConstructorCall(cls, kwargs) == [cls |-> cls, kwargs |-> kwargs]

\* Any class with any identifier.
IdCalls ==
    {ConstructorCall(c, Plain(id) @@ Empty(c)) : c \in Classes, id \in Identifiers}

\* Any class with any description, multiple flag and custom_type_name.
DescriptorCalls ==
    {ConstructorCall(c, Base(id, d, m, n) @@ Empty(c)) :
        c \in Classes, id \in {<<"a">>, <<"b">>}, d \in {<<>>, <<"d">>},
        m \in BOOLEAN, n \in {PyNone, PyStr(<<"K">>)}}

\* Scalar fields: several examples in some order, and one example of every
\* extraction value.
OrderExtractions == {PyStr(<<"a">>), PyStr(<<" ">>), PyList(<< <<"a">> >>)}
ScalarExamples ==
    SeqsUpTo(Texts \X OrderExtractions, MaxExamples)
    \cup {<< <<t, e>> >> : t \in {<<"t">>}, e \in DataValues}
ScalarCalls ==
    {ConstructorCall(c, Plain(id) @@ [examples |-> ex]) :
        c \in ScalarClasses, id \in FieldIds, ex \in ScalarExamples}

\* Object fields.
ObjectExamples ==
    {<< <<t, m>> >> : t \in {<<"t">>}, m \in Mappings}
    \cup {<< <<<<"t">>, m>>, <<<<"u">>, << <<<<"b">>, PyStr(<<"2">>)>> >> >> >> :
            m \in {<<>>, << <<<<"b">>, PyStr(<<"1">>)>>, <<<<"a">>, PyList(<< <<"1">>, <<"2">> >>)>> >>}}
ObjectCalls ==
    {ConstructorCall(ObjectInput, Plain(id) @@ [examples |-> ex]) :
        id \in FieldIds, ex \in ObjectExamples}

\* Selections: options are Option instances, built by the same constructor.
OptionOf(id, examples) == new(Option, Plain(id) @@ [examples |-> examples])
BareOptions == {OptionOf(id, <<>>) : id \in {<<"a">>, <<"b">>, <<"a", "_">>, <<"_">>}}
TaughtOptions ==
    {OptionOf(id, ex) :
        id \in {<<"a">>, <<"b">>},
        ex \in {<<>>, << <<"t">> >>, << <<"u">>, <<"t">> >>}}
NullExamples == {<<>>, << <<"n">> >>, << <<"u">>, <<"n">> >>}
SelectionCalls ==
    {ConstructorCall(Selection, Base(<<"z">>, <<>>, m, PyNone)
                                @@ [options |-> os, null_examples |-> <<>>]) :
        m \in BOOLEAN, os \in SeqsUpTo(BareOptions, MaxOptions)}
    \cup {ConstructorCall(Selection, Plain(id) @@ [options |-> os, null_examples |-> ns]) :
            id \in {<<"z">>}, os \in SeqsUpTo(TaughtOptions, MaxOptions), ns \in NullExamples}

\* Forms: elements are extraction fields, some with examples of their own.
ElementText == new(TextInput, Plain(<<"b">>)
                   @@ [examples |-> << <<<<"e">>, PyStr(<<"a">>)>> >>])
ElementNumber == new(Number, Plain(<<"a">>)
                     @@ [examples |-> << <<<<"f">>, PyList(<< <<"1">>, <<"2">> >>)>> >>])
ElementForm == new(Form, Plain(<<"z">>)
                   @@ [examples |-> << <<<<"g">>, PyStr(<<"b">>)>> >>,
                       elements |-> <<ElementText>>])
FormElements ==
    {<<>>, <<ElementText>>, <<ElementNumber, ElementText>>, <<ElementForm>>}
FormExamples ==
    {<<>>,
     << <<<<"t">>, PyStr(<<"a">>)>> >>,
     << <<<<"t">>, PyStr(<<" ">>)>>, <<<<"u">>, PyList(<< <<"a">>, <<"b">> >>)>> >>}
FormCalls ==
    {ConstructorCall(Form, Plain(id) @@ [examples |-> ex, elements |-> el]) :
        id \in {<<"a">>, <<"b">>}, ex \in FormExamples, el \in FormElements}

ConstructorCalls ==
    IdCalls \cup DescriptorCalls \cup ScalarCalls \cup ObjectCalls
    \cup SelectionCalls \cup FormCalls

\* A short session over two entities.
SessionCalls ==
    {ConstructorCall(TextInput, Plain(<<"a">>)
        @@ [examples |-> << <<<<"t">>, PyStr(<<"a">>)>>, <<<<"u">>, PyStr(<<" ">>)>> >>]),
     ConstructorCall(ObjectInput, Plain(<<"b">>)
        @@ [examples |-> << <<<<"t">>, << <<<<"b">>, PyStr(<<"1">>)>>,
                                          <<<<"a">>, PyStr(<<"2">>)>> >> >> >>]),
     ConstructorCall(Selection, Plain(<<"z">>)
        @@ [options |-> <<OptionOf(<<"b">>, << <<"t">> >>), OptionOf(<<"a">>, << <<"u">> >>)>>,
            null_examples |-> << <<"n">> >>]),
     ConstructorCall(Form, Plain(<<"a">>)
        @@ [examples |-> << <<<<"t">>, PyList(<< <<"b">>, <<"a">> >>)>> >>,
            elements |-> <<ElementText>>]),
     ConstructorCall(Number, Plain(<<"A">>) @@ [examples |-> <<>>])}

-----------------------------------------------------------------------------
(* Operations on entities.                                                 *)

\* The ValueError of a failed construction propagates to the caller: nothing
\* runs after it.
Raised == ret.op = "__init__" /\ ret.val = "ValueError"

\* One of `calls` is made, and its instance (if any) bound to slot s.
Construct(s, calls) ==
    /\ call = NoCall
    /\ ~Raised
    /\ objs[s] = NoField
    /\ \E c \in calls :
        LET obj == new(c.cls, c.kwargs)
        IN IF obj = ValueError
           THEN /\ ret' = [op |-> "__init__", args |-> <<s, c>>, val |-> "ValueError"]
                /\ UNCHANGED objs
           ELSE /\ ret' = [op |-> "__init__", args |-> <<s, c>>, val |-> "ok"]
                /\ objs' = [objs EXCEPT ![s] = obj]
    /\ UNCHANGED <<call, compiled>>

TypeName(s) ==
    /\ ~Raised
    /\ objs[s] # NoField
    /\ ret' = [op |-> "type_name", args |-> <<s>>, val |-> type_name(objs[s])]
    /\ UNCHANGED <<objs, call, compiled>>

\* Variant: the read consumes the declared examples.
LlmExamplesConsuming(s) ==
    /\ ~Raised
    /\ objs[s] # NoField
    /\ has_llm_examples(objs[s])
    /\ Len(compiled[s]) < MaxCompiles
    /\ ret' = [op |-> "llm_examples", args |-> <<s>>, val |-> llm_examples(objs[s])]
    /\ compiled' = [compiled EXCEPT ![s] = Append(@, llm_examples(objs[s]))]
    /\ objs' = [objs EXCEPT ![s] =
                   IF "examples" \in DOMAIN @
                   THEN [@ EXCEPT !.examples = <<>>]
                   ELSE [@ EXCEPT !.null_examples = <<>>]]
    /\ UNCHANGED call

LlmExamples(s) ==
    /\ ~Raised
    /\ objs[s] # NoField
    /\ has_llm_examples(objs[s])
    /\ Len(compiled[s]) < MaxCompiles
    /\ ret' = [op |-> "llm_examples", args |-> <<s>>, val |-> llm_examples(objs[s])]
    /\ compiled' = [compiled EXCEPT ![s] = Append(@, llm_examples(objs[s]))]
    /\ UNCHANGED <<objs, call>>

\* A direct tag writer call, or one entity from any constructor call.
Next ==
    \/ CallWriteSingleTag
    \/ CallWriteTag
    \/ CallWriteComplexTag
    \/ Construct(1, ConstructorCalls)
    \/ TypeName(1)
    \/ LlmExamples(1)

Spec == Init /\ [][Next]_vars

\* Two entities, their operations interleaved.
NextSession ==
    \/ \E s \in Slots : Construct(s, SessionCalls)
    \/ \E s \in Slots : TypeName(s)
    \/ \E s \in Slots : LlmExamples(s)

SpecSession == InitSession /\ [][NextSession]_vars

-----------------------------------------------------------------------------
(* Vocabulary of the properties, stated without the operators above.       *)

LowercaseLetters ==
    {"a", "b", "c", "d", "e", "f", "g", "h", "i", "j", "k", "l", "m",
     "n", "o", "p", "q", "r", "s", "t", "u", "v", "w", "x", "y", "z"}
DecimalDigits == {"0", "1", "2", "3", "4", "5", "6", "7", "8", "9"}
Whitespace == {" ", "\t", "\n", "\r", "\f"}

\* The whole of s is: a lowercase letter or underscore, then lowercase
\* letters, digits and underscores.
WholeIdentifier(s) ==
    /\ Len(s) >= 1
    /\ s[1] \in LowercaseLetters \cup {"_"}
    /\ \A i \in 2..Len(s) : s[i] \in LowercaseLetters \cup DecimalDigits \cup {"_"}

OpenTag(name) == <<"<">> \o name \o <<">">>
CloseTag(name) == <<"<", "/">> \o name \o <<">">>
Tagged(name, v) == OpenTag(name) \o v \o CloseTag(name)

RECURSIVE TaggedEach(_, _)
TaggedEach(name, vs) ==
    IF vs = <<>> THEN <<>> ELSE Tagged(name, Head(vs)) \o TaggedEach(name, Tail(vs))

\* How many times pat occurs in s.
Occurrences(pat, s) ==
    Cardinality({i \in 1..(Len(s) - Len(pat) + 1) : SubSeq(s, i, i + Len(pat) - 1) = pat})

\* a comes strictly before b in lexicographic order.
LexLess(a, b) ==
    \E k \in 1..Len(b) :
        /\ k - 1 <= Len(a)
        /\ \A i \in 1..(k - 1) : a[i] = b[i]
        /\ IF k > Len(a) THEN TRUE ELSE Ord(a[k]) < Ord(b[k])

\* writeTag of every item of m at an index in I, smallest key first.
RECURSIVE KeysAscending(_, _)
KeysAscending(m, I) ==
    IF I = {} THEN <<>>
    ELSE LET i == CHOOSE x \in I : \A y \in I \ {x} : LexLess(m[x][1], m[y][1])
         IN write_tag(m[i][1], m[i][2]) \o KeysAscending(m, I \ {i})

ComplexTag(name, m) == Tagged(name, KeysAscending(m, 1..Len(m)))

\* The same elements in every order.
Reorderings(q) == {[i \in 1..Len(q) |-> q[p[i]]] : p \in Permutations(1..Len(q))}

AllWhitespace(v) == \A i \in 1..Len(v) : v[i] \in Whitespace

\* What a scalar field's example compiles to under tag name id.
ScalarOutput(id, extraction) ==
    IF extraction.type = "str" /\ AllWhitespace(extraction.v)
    THEN <<>>
    ELSE write_tag(id, extraction)

RECURSIVE Listed(_)
Listed(L) ==
    IF L = <<>> THEN <<>>
    ELSE IF Len(L) = 1 THEN L[1]
    ELSE L[1] \o <<",">> \o Listed(Tail(L))

RECURSIVE ExamplesBefore(_, _)
ExamplesBefore(options, i) ==
    IF i <= 1 THEN 0
    ELSE ExamplesBefore(options, i - 1) + Len(options[i - 1].examples)

VariantName(cls) ==
    CASE cls = DateInput -> <<"D", "a", "t", "e">>
      [] cls = Number -> <<"N", "u", "m", "b", "e", "r">>
      [] cls = TimePeriod -> <<"T", "i", "m", "e", "P", "e", "r", "i", "o", "d">>
      [] cls = NumericRange -> <<"N", "u", "m", "e", "r", "i", "c", "R", "a", "n", "g", "e">>
      [] cls = TextInput -> <<"T", "e", "x", "t">>
      [] cls = ObjectInput -> <<"O", "b", "j", "e", "c", "t">>
      [] cls = Option -> <<"O", "p", "t", "i", "o", "n">>
      [] cls = Form -> <<"F", "o", "r", "m">>

\* The entity the last property read was made on.
Self == objs[ret.args[1]]

-----------------------------------------------------------------------------
(* Properties.                                                             *)

\* C1: constructing any field variant with id = s succeeds if and only if the
\* whole of s is an identifier (lowercase letter or underscore, then lowercase
\* letters, digits, underscores); otherwise it fails with the identifier error
\* and no entity is produced.  Violated: a valid identifier followed by a
\* newline is accepted.
C1_ConstructsIffWholeIdentifier ==
    ret.op = "__init__" =>
        LET id == ret.args[2].kwargs.id
        IN IF WholeIdentifier(id)
           THEN ret.val = "ok" /\ Self # NoField /\ Self.id = id
           ELSE ret.val = "ValueError" /\ Self = NoField

\* What the code does instead: it also accepts an identifier followed by one
\* trailing newline.
ConstructsIffIdentifierOrNewline ==
    ret.op = "__init__" =>
        LET id == ret.args[2].kwargs.id
            accepted ==
                \/ WholeIdentifier(id)
                \/ /\ Len(id) >= 2
                   /\ id[Len(id)] = "\n"
                   /\ WholeIdentifier(SubSeq(id, 1, Len(id) - 1))
        IN IF accepted
           THEN ret.val = "ok" /\ Self # NoField /\ Self.id = id
           ELSE ret.val = "ValueError" /\ Self = NoField

\* C2: writeComplexTag(name, mapping) is "<name>" + C + "</name>", C being the
\* concatenation of writeTag(key, value) in ascending order of key; every
\* insertion order of the same pairs gives the same output; and an Object
\* field compiles (text, mapping) to (text, writeComplexTag(id, mapping)).
C2_ComplexTagKeysAscending ==
    /\ ret.op = "_write_complex_tag" =>
        /\ ret.val = ComplexTag(ret.args[1], ret.args[2])
        /\ \A r \in Reorderings(ret.args[2]) :
               write_complex_tag(ret.args[1], r) = ret.val
    /\ (ret.op = "llm_examples" /\ Self.cls = ObjectInput) =>
        /\ Len(ret.val) = Len(Self.examples)
        /\ \A i \in 1..Len(Self.examples) :
            /\ ret.val[i] = <<Self.examples[i][1], ComplexTag(Self.id, Self.examples[i][2])>>
            /\ \A r \in Reorderings(Self.examples[i][2]) :
                   llm_examples([Self EXCEPT !.examples[i][2] = r])[i] = ret.val[i]

C2_Witness ==
    /\ ret.op = "llm_examples"
    /\ Self.cls = ObjectInput
    /\ Len(Self.examples) = 1
    /\ Len(Self.examples[1][2]) = 2
    /\ LexLess(Self.examples[1][2][2][1], Self.examples[1][2][1][1])
    /\ Self.examples[1][2][1][2].type = "list"

\* C3: writeTag(name, v) for a single string v is "<name>v</name>"; for a
\* sequence it is the tags of its elements in the sequence's own order,
\* exactly one per element, and the empty string for the empty sequence.
C3_WriteTagInOrder ==
    ret.op = "_write_tag" =>
        LET name == ret.args[1]
            values == ret.args[2]
        IN IF values.type = "str"
           THEN ret.val = Tagged(name, values.v)
           ELSE /\ ret.val = TaggedEach(name, values.v)
                /\ Occurrences(OpenTag(name), ret.val) = Len(values.v)
                /\ Occurrences(CloseTag(name), ret.val) = Len(values.v)
                /\ values.v = <<>> => ret.val = <<>>

C3_Witness ==
    /\ ret.op = "_write_tag"
    /\ ret.args[2] = PyList(<< <<"b">>, <<"a">> >>)
    /\ ret.val = Tagged(ret.args[1], <<"b">>) \o Tagged(ret.args[1], <<"a">>)

\* C4: a scalar field with n declared examples compiles to exactly n pairs,
\* the i-th being (text_i, out_i) with text_i unchanged; out_i is empty when
\* the extraction is a single string that is empty or all whitespace, and
\* writeTag(id, extraction_i) otherwise.
C4_ScalarExamples ==
    (ret.op = "llm_examples" /\ Self.cls \in ScalarClasses) =>
        /\ Len(ret.val) = Len(Self.examples)
        /\ \A i \in 1..Len(Self.examples) :
               ret.val[i] = <<Self.examples[i][1],
                              ScalarOutput(Self.id, Self.examples[i][2])>>

C4_Witness ==
    /\ ret.op = "llm_examples"
    /\ Self.cls \in ScalarClasses
    /\ Len(Self.examples) = 2
    /\ Self.examples[1] = <<<<"u">>, PyStr(<<" ">>)>>
    /\ Self.examples[2] = <<<<"t">>, PyStr(<<"a">>)>>
    /\ ret.val = << <<<<"u">>, <<>>>>, <<<<"t">>, Tagged(Self.id, <<"a">>)>> >>

\* C5: a Selection compiles to, first, one pair (text, "<sel_id>opt_id</sel_id>")
\* per option example, options and their examples in declared order, then one
\* pair (text, "") per null example in declared order; the number of pairs is
\* the options' example counts plus the null examples.
C5_SelectionExamples ==
    (ret.op = "llm_examples" /\ Self.cls = Selection) =>
        LET options == Self.options
            nulls == Self.null_examples
            total == ExamplesBefore(options, Len(options) + 1)
        IN /\ Len(ret.val) = total + Len(nulls)
           /\ \A i \in 1..Len(options) :
                \A j \in 1..Len(options[i].examples) :
                    ret.val[ExamplesBefore(options, i) + j]
                        = <<options[i].examples[j], Tagged(Self.id, options[i].id)>>
           /\ \A k \in 1..Len(nulls) : ret.val[total + k] = <<nulls[k], <<>>>>

C5_Witness ==
    /\ ret.op = "llm_examples"
    /\ Self.cls = Selection
    /\ Len(Self.options) = 2
    /\ Len(Self.options[1].examples) = 2
    /\ Len(Self.options[2].examples) = 1
    /\ Self.options[1].id # Self.options[2].id
    /\ Len(Self.null_examples) = 2
    /\ Len(ret.val) = 5

\* C6: a Selection's descriptor is "Select[" + L + "]", prefixed by "Multiple "
\* when multiple is true, L being the comma-joined ids of all its options in
\* ascending order whatever the declaration order, duplicates kept.
C6_SelectionDescriptor ==
    (ret.op = "type_name" /\ Self.cls = Selection) =>
        LET n == Len(Self.options)
            head == IF Self.multiple
                    THEN <<"M", "u", "l", "t", "i", "p", "l", "e", " ",
                           "S", "e", "l", "e", "c", "t", "[">>
                    ELSE <<"S", "e", "l", "e", "c", "t", "[">>
        IN \E p \in Permutations(1..n) :
            LET L == [i \in 1..n |-> Self.options[p[i]].id]
            IN /\ \A i \in 1..(n - 1) : ~LexLess(L[i + 1], L[i])
               /\ ret.val = head \o Listed(L) \o <<"]">>

C6_Witness ==
    /\ ret.op = "type_name"
    /\ Self.cls = Selection
    /\ Self.multiple
    /\ Len(Self.options) = 2
    /\ LexLess(Self.options[2].id, Self.options[1].id)

\* C7: the descriptor of a field that is not a Selection is its variant name,
\* prefixed by "Multiple " when multiple is true, whatever its
\* custom_type_name, id and description.
C7_DefaultDescriptor ==
    (ret.op = "type_name" /\ Self.cls # Selection) =>
        ret.val = (IF Self.multiple
                   THEN <<"M", "u", "l", "t", "i", "p", "l", "e", " ">>
                   ELSE <<>>) \o VariantName(Self.cls)

C7_Witness ==
    /\ ret.op = "type_name"
    /\ Self.cls = TextInput
    /\ Self.multiple
    /\ Self.custom_type_name # PyNone
    /\ Self.description # <<>>

\* C8: reading llm_examples leaves every entity as it was, and every read of
\* an entity returns what its first read returned, however the reads are
\* interleaved with descriptor reads and with reads of another entity.
C8_CompilingIsPure ==
    [][/\ \A s \in Slots : objs[s] # NoField => objs'[s] = objs[s]
       /\ \A s \in Slots : \A i \in 1..Len(compiled'[s]) :
              compiled'[s][i] = compiled'[s][1]]_vars

C8_Witness ==
    /\ Len(compiled[1]) = 2
    /\ Len(compiled[2]) = 2
    /\ objs[1].cls = Selection
    /\ objs[2].cls = Form
    /\ ret.op = "type_name"

\* C9: a Form compiles its own examples by the scalar rule under its own id;
\* its elements are never consulted: any other elements give the same
\* output, and no example text of an element appears in it.
C9_FormIgnoresElements ==
    (ret.op = "llm_examples" /\ Self.cls = Form) =>
        /\ Len(ret.val) = Len(Self.examples)
        /\ \A i \in 1..Len(Self.examples) :
               ret.val[i] = <<Self.examples[i][1],
                              ScalarOutput(Self.id, Self.examples[i][2])>>
        /\ \A el \in FormElements : llm_examples([Self EXCEPT !.elements = el]) = ret.val
        /\ \A e \in 1..Len(Self.elements) :
               \A x \in 1..Len(Self.elements[e].examples) :
                   \A i \in 1..Len(ret.val) :
                       ret.val[i][1] # Self.elements[e].examples[x][1]

C9_Witness ==
    /\ ret.op = "llm_examples"
    /\ Self.cls = Form
    /\ Len(Self.examples) = 2
    /\ Len(Self.elements) = 2
    /\ Len(Self.elements[1].examples) = 1

\* C10: a scalar field's extraction given as a sequence of n strings compiles
\* to exactly n tags, empty and whitespace-only elements included ([""] gives
\* "<id></id>"); only the empty sequence compiles to the empty string.
C10_SequenceKeepsEveryTag ==
    (ret.op = "llm_examples" /\ Self.cls \in ScalarClasses) =>
        \A i \in 1..Len(Self.examples) :
            LET extraction == Self.examples[i][2]
                out == ret.val[i][2]
            IN extraction.type = "list" =>
                /\ Occurrences(OpenTag(Self.id), out) = Len(extraction.v)
                /\ Occurrences(CloseTag(Self.id), out) = Len(extraction.v)
                /\ (out = <<>>) <=> (extraction.v = <<>>)
                /\ extraction.v = << <<>> >> => out = OpenTag(Self.id) \o CloseTag(Self.id)

C10_Witness ==
    /\ ret.op = "llm_examples"
    /\ Self.cls \in ScalarClasses
    /\ Len(Self.examples) = 1
    /\ Self.examples[1][2] = PyList(<< <<" ">>, <<>> >>)
    /\ ret.val[1][2] = Tagged(Self.id, <<" ">>) \o Tagged(Self.id, <<>>)

====
